---------------------------- MODULE Spec2Model ----------------------------
(***************************************************************************)
(* Model of the MSISDN bulk transform-load scripts and of the sweep-delete *)
(* scripts of webb1es/custom-scripts.                                      *)
(*                                                                         *)
(*   mongo-db/import_msisdn_records.sh  holds two import scripts:          *)
(*     lines   1-321  the "upsert" variant (chunked _id pagination,        *)
(*                    updateOne/$setOnInsert/upsert, writeConcern w:0)     *)
(*     lines 322-499  the "insert" variant (one cursor, msisdnSet dedup,   *)
(*                    insertOne with _id = msisdn)                         *)
(*   mongo-db/remove_msisdn_imports.js  holds two sweep-delete scripts:    *)
(*     lines   1-39   "sweepA" (while (stillHasDocuments))                 *)
(*     lines  41-153  "sweepB" (count, while (true), progress table);      *)
(*                    unnamed/part_000 is the same script as sweepB        *)
(*                                                                         *)
(* One behaviour of the model is one invocation mode (variant), chosen in  *)
(* Init.  Strings are sequences of characters so that trim() is computed.  *)
(* The upsert variant's trap (cleanup on SIGINT or SIGTERM) is modelled by *)
(* the actions Interrupt and Cleanup; InterruptFairSpec adds them to a run.*)
(* The numeric knobs of the scripts (10000-record batches, 10x chunks,     *)
(* pauses every 5 batches, ...) are scaled down so that batch boundaries,  *)
(* chunk re-opens and DedupSet resets all happen within MaxStaging         *)
(* records.  LongScanFairSpec runs the import over longer files of two     *)
(* kinds of row, so that a chunk of the largest size fills; EtaSpec applies*)
(* the arithmetic of a progress line (speed, time remaining) to its inputs.*)
(***************************************************************************)
EXTENDS Integers, Sequences, FiniteSets, TLC

-----------------------------------------------------------------------------
(* Bounds of the model *)

\* most documents in the staging collection
MaxStaging == 3
\* processBatchSize ranges over 1..MaxBatchSize
MaxBatchSize == 2
\* most transient bulkWrite failures the environment injects in a behaviour
MaxFailures == 1
\* the script is run at most this many times over the same CSV file
MaxRuns == 2
\* most documents in the collection the sweep-delete scripts work on
MaxColl == 3
\* the sweep-delete batchSize ranges over 1..MaxSweepBatch
MaxSweepBatch == 2
\* most documents in the staging collection of a long scan
MaxLongStaging == 5
\* a progress line counts up to this many records done
MaxEtaCount == 3
\* and up to this many seconds
MaxEtaSeconds == 6

(* Program constants, scaled *)

\* .limit(processBatchSize * 10): 10 in the script
ChunkMultiplier == 2
\* PAUSE_INTERVAL=5 in the script
PauseInterval == 2
\* MEMORY_RESET=20 in the script
MemoryReset == 2
\* PROGRESS_INTERVAL=10 in the script
ProgressInterval == 2
\* sweepB: const logInterval = 10 in the script
LogInterval == 2
\* the seconds of a minute and of an hour in the time remaining
Minute == 60
Hour == 3600

-----------------------------------------------------------------------------
(* Strings *)

SP == " "
\* the literal "MSISDN", the CSV column's header label
HeaderLabel == <<"M", "S", "I", "S", "D", "N">>
K1 == <<"1">>
K2 == <<"2">>

\* values of the MSISDN column met in the staging collection
RawFields == {<<>>, <<SP>>, HeaderLabel, K1, <<SP>> \o K2 \o <<SP>>}

RECURSIVE TrimLeft(_)
TrimLeft(s) == IF s # <<>> /\ Head(s) = SP THEN TrimLeft(Tail(s)) ELSE s

RECURSIVE TrimRight(_)
TrimRight(s) ==
    IF s # <<>> /\ s[Len(s)] = SP THEN TrimRight(SubSeq(s, 1, Len(s) - 1)) ELSE s

\* String.prototype.trim
Trim(s) == TrimRight(TrimLeft(s))

\* var msisdn = doc.MSISDN ? doc.MSISDN.toString().trim() : null;
\* a missing field (undefined) and "" are falsy
Msisdn(doc) ==
    IF "MSISDN" \in DOMAIN doc /\ doc.MSISDN # <<>>
    THEN [null |-> FALSE, str |-> Trim(doc.MSISDN)]
    ELSE [null |-> TRUE, str |-> <<>>]

\* !msisdn
Falsy(m) == m.null \/ m.str = <<>>

\* upsert variant: if (!msisdn || msisdn === "" || msisdn === "MSISDN")
InvalidUpsert(m) == Falsy(m) \/ m.str = <<>> \/ m.str = HeaderLabel

\* insert variant: if (!msisdn || msisdn === "")
InvalidInsert(m) == Falsy(m) \/ m.str = <<>>

-----------------------------------------------------------------------------
(* The target collection: a function from _id to the document's fields *)

\* the fields both variants give a new target document
NewDoc(t) ==
    [simType |-> "N/A", simNumber |-> "N/A", status |-> "completed",
     requestId |-> "batch-import-old-app", allocationDate |-> t, createdDate |-> t]

\* a document that was in the target collection before any run
OldDoc ==
    [simType |-> "prepaid", simNumber |-> "8926", status |-> "active",
     requestId |-> "app", allocationDate |-> 0, createdDate |-> 0]

\* the write replaces the document that is there ($set in place of $setOnInsert)
WriteOne_Overwrite(tgt, key, t) == (key :> NewDoc(t)) @@ tgt

\* updateOne {filter: {_id}, update: {$setOnInsert}, upsert: true}, and
\* insertOne {_id} where the unique _id index rejects an existing _id:
\* either way an existing document is left as it is
WriteOne(tgt, key, t) ==
    IF key \in DOMAIN tgt THEN tgt ELSE (key :> NewDoc(t)) @@ tgt

\* the operations of batch b at the positions in idx, applied to tgt
RECURSIVE ApplyOps(_, _, _, _)
ApplyOps(tgt, b, idx, t) ==
    IF idx = {} THEN tgt
    ELSE LET i == CHOOSE j \in idx : \A k \in idx : j <= k
         IN ApplyOps(WriteOne(tgt, b[i], t), b, idx \ {i}, t)

\* the operations are applied in order and the first that fails ends the call
BulkWrite_Ordered(tgt, b, t) ==
    ApplyOps(tgt, b, {i \in 1..Len(b) : \A j \in 1..i : b[j] \notin DOMAIN tgt}, t)

\* bulkWrite(batch, {ordered: false}) that reaches the server: every
\* operation is attempted, whatever happens to the others
BulkWrite(tgt, b, t) == ApplyOps(tgt, b, 1..Len(b), t)

\* insert variant: an insertOne of an existing _id is a duplicate key error,
\* which bulkWrite throws as a BulkWriteError once all operations were tried
HasDupKey(tgt, b) == \E i \in 1..Len(b) : b[i] \in DOMAIN tgt

-----------------------------------------------------------------------------
VARIABLES
    variant,          \* "upsert" | "insert" | "sweepA" | "sweepB"
    pc,               \* the Run Controller's state
    run,              \* 1 for the first run of the script, 2 for the second
    source,           \* the staging documents mongoimport makes of the CSV file
    stagingExists,    \* the temporary collection exists
    staging,          \* the temporary collection's documents
    target,           \* the target collection
    processBatchSize, \* PROCESS_BATCH_SIZE
    stats,            \* stats.processed, skipped, duplicates, batchCount
    batch,            \* var batch: the _ids of the buffered write operations
    msisdnSet,        \* insert variant: var msisdnSet
    lastObjectId,     \* upsert variant: var lastObjectId (0: null)
    cursor,           \* the documents the open cursor has yet to return
    recordsInChunk,   \* upsert variant: var recordsInChunk
    initialCount,     \* target count taken before scanning
    failures,         \* transient bulkWrite failures injected so far
    \* history of the run, kept for the properties
    consumed,         \* documents cursor.next() has returned in this run
    validSeen,        \* valid keys consumed in this run
    invalidSeen,      \* documents consumed in this run whose key is not valid
    writes,           \* the bulkWrite calls of this run, in order
    lastReport,       \* the counters at the last progress line or summary
    pauses,           \* cooldown sleeps of this run
    resets,           \* msisdnSet resets of this run
    reported,         \* the values of stats.batchCount at this run's progress lines
    snap,             \* the target collection when the first run ended
    scanned,          \* the _ids cursor.next() has returned in this run, in order
    chunks,           \* the cursors this run has opened on the temporary collection
    \* sweep-delete
    coll,             \* the collection the sweep works on
    coll0,            \* history: the collection when the sweep started
    batchSize,        \* const batchSize
    idsToDelete,      \* const idsToDelete of the current pass
    totalToDelete,    \* sweepB: const totalToDelete
    totalDeleted,     \* let totalDeleted
    deletedCount,     \* result.deletedCount of the last deleteMany
    batchCount,       \* sweepB: let batchCount; sweepA: the deleteMany calls
    logged,           \* history: the passes after which a line was printed
    \* the shell script around the import
    exitCode,         \* the script's exit status (-1 while it runs)
    reply,            \* $REPLY at the prompt of cleanup ("none": not asked)
    \* the arithmetic of a progress line, on its own
    etaIn,            \* the counters and the elapsed time the line is made of
    etaOut            \* the speed and the time remaining the line shows

importVars ==
    <<run, source, stagingExists, staging, target, processBatchSize, stats, batch,
      msisdnSet, lastObjectId, cursor, recordsInChunk, initialCount, failures>>
historyVars ==
    <<consumed, validSeen, invalidSeen, writes, lastReport, pauses, resets, reported, snap,
      scanned, chunks>>
sweepVars ==
    <<coll, coll0, batchSize, idsToDelete, totalToDelete, totalDeleted, deletedCount,
      batchCount, logged>>
shellVars == <<exitCode, reply>>
etaVars == <<etaIn, etaOut>>
vars == <<variant, pc, importVars, historyVars, sweepVars, shellVars, etaVars>>

IsImport == variant \in {"upsert", "insert"}
IsSweep == variant \in {"sweepA", "sweepB"}

ZeroStats == [processed |-> 0, skipped |-> 0, duplicates |-> 0, batchCount |-> 0]
NoReport == [kind |-> "none", processed |-> 0, skipped |-> 0, duplicates |-> 0,
             consumed |-> 0]

\* a CSV row as mongoimport stores it: the MSISDN field, or no such field
Rows == {[has |-> TRUE, f |-> f] : f \in RawFields} \cup {[has |-> FALSE, f |-> <<>>]}
WithId(row, i) == IF row.has THEN [_id |-> i, MSISDN |-> row.f] ELSE [_id |-> i]

\* the staging collections mongoimport can make: _ids 1..n in insertion order
Sources ==
    UNION {{{WithId(g[i], i) : i \in 1..n} : g \in [1..n -> Rows]} : n \in 0..MaxStaging}

\* longer staging collections of two kinds of row: a valid key and an empty field
LongRows == {[has |-> TRUE, f |-> K1], [has |-> TRUE, f |-> <<>>]}
LongSources ==
    UNION {{{WithId(g[i], i) : i \in 1..n} : g \in [1..n -> LongRows]} :
             n \in 0..MaxLongStaging}

\* the target collection before the first run: empty, or holding K1 already
InitialTargets == {<<>>, (K1 :> OldDoc)}

-----------------------------------------------------------------------------
(* Cursors *)

\* the documents of S as a sequence in ascending _id order: .sort({_id: 1})
RECURSIVE SortById(_)
SortById(S) ==
    IF S = {} THEN <<>>
    ELSE LET d == CHOOSE x \in S : \A y \in S : x._id <= y._id
         IN <<d>> \o SortById(S \ {d})

\* .limit(n)
Limit(q, n) == SubSeq(q, 1, IF Len(q) < n THEN Len(q) ELSE n)

\* the chunk is opened without the $gt predicate
ChunkQuery_NoResume(S, last) == S

\* the chunk is re-opened with $gte in place of $gt
ChunkQuery_Gte(S, last) == IF last = 0 THEN S ELSE {d \in S : d._id >= last}

\* query = {} while lastObjectId is null, {_id: {$gt: lastObjectId}} after
ChunkQuery(S, last) == IF last = 0 THEN S ELSE {d \in S : d._id > last}

\* a chunk of processBatchSize documents
ChunkSize_OneBatch(pbs) == pbs

\* processBatchSize * 10
ChunkSize(pbs) == pbs * ChunkMultiplier

\* upsert variant: find(query).sort({_id: 1}).limit(processBatchSize * 10)
FindChunk(S, last, pbs) == Limit(SortById(ChunkQuery(S, last)), ChunkSize(pbs))

\* insert variant: find().noCursorTimeout(), in natural (insertion) order
FindAll(S) == SortById(S)

-----------------------------------------------------------------------------
(* The catch blocks of the mid-run bulkWrite *)

\* the catch block keeps the batch that failed
BatchAfterCatch_Keep(b) == b

\* catch (e) { print(...Retrying...); sleep(3000); batch = []; }
BatchAfterCatch(b) == <<>>

\* the catch block ends the run
AfterMidRunCatch_Abort == "failed"

\* the catch block falls through to the next iteration of the scan loop
AfterMidRunCatch == "scan"

\* a key the specification calls valid: not empty after trimming, not the header
SpecValid(m) == ~m.null /\ m.str # <<>> /\ m.str # HeaderLabel

-----------------------------------------------------------------------------
(* JavaScript numbers: an integer, or one of Infinity, -Infinity and NaN *)

Num(n) == [k |-> "num", v |-> n]
Infinity == [k |-> "Infinity", v |-> 0]
NegInfinity == [k |-> "-Infinity", v |-> 0]
NaN == [k |-> "NaN", v |-> 0]

\* Math.round(a / b), a an integer and b an integer that is not negative, or
\* Infinity: a / 0 is Infinity, -Infinity or NaN, which Math.round returns as
\* they are, and Math.round rounds a half up
RoundDiv(a, b) ==
    IF b.k = "Infinity" THEN Num(0)
    ELSE IF b.v = 0 THEN (IF a > 0 THEN Infinity ELSE IF a < 0 THEN NegInfinity ELSE NaN)
    ELSE Num((2 * a + b.v) \div (2 * b.v))

\* x > n: false of NaN whatever n is
Gt(x, n) == x.k = "Infinity" \/ (x.k = "num" /\ x.v > n)

\* Math.floor(x / n), n a positive integer
FloorDiv(x, n) == IF x.k = "num" THEN Num(x.v \div n) ELSE x

\* x % n, n a positive integer and x not negative: Infinity % n is NaN
Mod(x, n) == IF x.k = "num" THEN Num(x.v % n) ELSE NaN

\* records left when a progress line is made: none, a few, and enough for the
\* time remaining to pass a minute and an hour
LeftValues == {0, 1, 2, 150, 7300}

\* no progress line is being worked out
NoEta == [unit |-> "none", a |-> Num(0), b |-> Num(0)]
EtaIdle == etaIn = <<>> /\ etaOut = [speed |-> Num(0), eta |-> NoEta]

-----------------------------------------------------------------------------
\* no sweep is under way
SweepIdle ==
    /\ coll = {} /\ coll0 = {} /\ batchSize = 1 /\ idsToDelete = {}
    /\ totalToDelete = 0 /\ totalDeleted = 0 /\ deletedCount = 0 /\ batchCount = 0
    /\ logged = {}

\* no import is under way
ImportIdle ==
    /\ run = 1 /\ stagingExists = FALSE /\ source = {} /\ staging = {}
    /\ target = <<>> /\ processBatchSize = 1 /\ stats = ZeroStats /\ batch = <<>>
    /\ msisdnSet = {} /\ lastObjectId = 0 /\ cursor = <<>> /\ recordsInChunk = 0
    /\ initialCount = 0 /\ failures = 0 /\ consumed = 0 /\ validSeen = {}
    /\ invalidSeen = 0
    /\ writes = <<>> /\ lastReport = NoReport /\ pauses = 0 /\ resets = 0
    /\ reported = {} /\ snap = <<>> /\ scanned = <<>> /\ chunks = 0

\* the state when the script starts, the CSV file being one of files
ImportStart(files) ==
    /\ variant \in {"upsert", "insert"}
    /\ pc = "init"
    /\ run = 1
    /\ stagingExists \in BOOLEAN
    /\ source \in (IF stagingExists THEN files ELSE {{}})
    /\ staging = source
    /\ target \in InitialTargets
    /\ processBatchSize \in 1..MaxBatchSize
    /\ stats = ZeroStats
    /\ batch = <<>>
    /\ msisdnSet = {}
    /\ lastObjectId = 0
    /\ cursor = <<>>
    /\ recordsInChunk = 0
    /\ initialCount = 0
    /\ failures = 0
    /\ consumed = 0
    /\ validSeen = {}
    /\ invalidSeen = 0
    /\ writes = <<>>
    /\ lastReport = NoReport
    /\ pauses = 0
    /\ resets = 0
    /\ reported = {}
    /\ snap = <<>>
    /\ scanned = <<>>
    /\ chunks = 0
    /\ exitCode = -1
    /\ reply = "none"
    /\ SweepIdle
    /\ EtaIdle

ImportInit == ImportStart(Sources)

\* longer files of fewer kinds of row, so that a chunk of the largest size fills
LongScanInit == ImportStart(LongSources)

\* upsert variant: the shell's checks of the temporary collection, then the
\* script's set-up; insert variant: the script starts whatever mongoimport did
Initialize ==
    /\ IsImport /\ pc = "init"
    /\ \/ /\ variant = "upsert" /\ ~stagingExists
          /\ pc' = "failed"
          /\ exitCode' = 1
          /\ UNCHANGED initialCount
       \/ /\ variant = "upsert" /\ stagingExists /\ staging = {}
          /\ pc' = "declined"
          /\ exitCode' = 1
          /\ UNCHANGED initialCount
       \/ /\ variant = "upsert" => stagingExists
          /\ pc' = "open"
          /\ initialCount' = Cardinality(DOMAIN target)
          /\ UNCHANGED exitCode
    /\ UNCHANGED <<variant, etaVars, run, source, stagingExists, staging, target,
                   processBatchSize, stats, batch, msisdnSet, lastObjectId, cursor,
                   recordsInChunk, failures, historyVars, sweepVars, reply>>

OpenChunk ==
    /\ IsImport /\ pc = "open"
    /\ cursor' = IF variant = "upsert"
                  THEN FindChunk(staging, lastObjectId, processBatchSize)
                  ELSE FindAll(staging)
    /\ recordsInChunk' = 0
    /\ chunks' = chunks + 1
    /\ pc' = "scan"
    /\ UNCHANGED <<variant, etaVars, run, source, stagingExists, staging, target,
                   processBatchSize, stats, batch, msisdnSet, lastObjectId,
                   initialCount, failures, consumed, validSeen, invalidSeen, writes,
                   lastReport, pauses, resets, reported, snap, scanned, sweepVars,
                   shellVars>>

\* one iteration of while (cursor.hasNext()) up to the batch.push
ScanRecord ==
    /\ IsImport /\ pc = "scan" /\ cursor # <<>>
    /\ LET doc == Head(cursor)
           m == Msisdn(doc)
           invalid == IF variant = "upsert" THEN InvalidUpsert(m) ELSE InvalidInsert(m)
           duplicate == variant = "insert" /\ ~invalid /\ m.str \in msisdnSet
           pushed == ~invalid /\ ~duplicate
       IN /\ cursor' = Tail(cursor)
          /\ consumed' = consumed + 1
          /\ scanned' = Append(scanned, doc._id)
          /\ recordsInChunk' = IF variant = "upsert" THEN recordsInChunk + 1
                               ELSE recordsInChunk
          /\ lastObjectId' = IF variant = "upsert" THEN doc._id ELSE lastObjectId
          /\ stats' = [stats EXCEPT
                         !.skipped = IF invalid THEN @ + 1 ELSE @,
                         !.duplicates = IF duplicate THEN @ + 1 ELSE @]
          /\ msisdnSet' = IF variant = "insert" /\ pushed
                          THEN msisdnSet \cup {m.str} ELSE msisdnSet
          /\ batch' = IF pushed THEN Append(batch, m.str) ELSE batch
          /\ validSeen' = IF SpecValid(m) THEN validSeen \cup {m.str} ELSE validSeen
          /\ invalidSeen' = IF SpecValid(m) THEN invalidSeen ELSE invalidSeen + 1
          /\ pc' = IF pushed /\ Len(batch') >= processBatchSize THEN "commit" ELSE "scan"
    /\ UNCHANGED <<variant, etaVars, run, source, stagingExists, staging, target,
                   processBatchSize, initialCount, failures, writes, lastReport,
                   pauses, resets, reported, snap, chunks, sweepVars, shellVars>>

\* the cursor is exhausted: moreRecords = (recordsInChunk >= processBatchSize * 10)
CloseChunk ==
    /\ IsImport /\ pc = "scan" /\ cursor = <<>>
    /\ pc' = IF variant = "upsert" /\ recordsInChunk >= ChunkSize(processBatchSize)
             THEN "open" ELSE "drain"
    /\ UNCHANGED <<variant, etaVars, importVars, historyVars, sweepVars, shellVars>>

\* insert variant: if (stats.batchCount % 50 === 0), 50 scaled like the others
ProgressDue(n) == n % ProgressInterval = 0

\* the cooldown follows every committed batch
PauseDue_EveryBatch(n) == TRUE

\* if (stats.batchCount % pauseInterval === 0) sleep(pauseDuration * 1000)
PauseDue(n) == n % PauseInterval = 0

\* if (stats.batchCount % memoryReset === 0): gc(), and in the insert variant
\* msisdnSet = {}
ResetDue(n) == n % MemoryReset = 0

\* the writeConcern option of the bulkWrite call.  upsert variant: {w: 0}
\* mid-run, {w: 1} for the final batch; insert variant: none, so the
\* connection's default for both
WriteConcern(v, final) ==
    IF v = "upsert" THEN (IF final THEN "w1" ELSE "w0") ELSE "default"

\* the try block after a mid-run bulkWrite that returned
Committed(tgt) ==
    LET n == stats.batchCount + 1
        st == [stats EXCEPT !.processed = @ + Len(batch), !.batchCount = n]
    IN /\ target' = tgt
       /\ stats' = st
       /\ lastReport' = IF ProgressDue(n)
                        THEN [kind |-> "progress", processed |-> st.processed,
                              skipped |-> st.skipped, duplicates |-> st.duplicates,
                              consumed |-> consumed]
                        ELSE lastReport
       /\ reported' = IF ProgressDue(n) THEN reported \cup {n} ELSE reported
       /\ msisdnSet' = IF variant = "insert" /\ ResetDue(n) THEN {} ELSE msisdnSet
       /\ resets' = IF variant = "insert" /\ ResetDue(n) THEN resets + 1 ELSE resets
       /\ pauses' = IF PauseDue(n) THEN pauses + 1 ELSE pauses
       /\ batch' = <<>>
       /\ writes' = Append(writes, [keys |-> batch, final |-> FALSE, ok |-> TRUE,
                                     cause |-> "none",
                                     w |-> WriteConcern(variant, FALSE)])
       /\ pc' = "scan"

\* the catch block after a mid-run bulkWrite that threw
Caught(tgt, why) ==
    /\ target' = tgt
    /\ batch' = BatchAfterCatch(batch)
    /\ writes' = Append(writes, [keys |-> batch, final |-> FALSE, ok |-> FALSE,
                                  cause |-> why, w |-> WriteConcern(variant, FALSE)])
    /\ pc' = AfterMidRunCatch
    /\ UNCHANGED <<stats, lastReport, msisdnSet, resets, pauses, reported>>

\* if (batch.length >= processBatchSize): bulkWrite returns
CommitOk ==
    /\ IsImport /\ pc = "commit"
    /\ variant = "insert" => ~HasDupKey(target, batch)
    /\ Committed(BulkWrite(target, batch, run))
    /\ UNCHANGED <<variant, etaVars, run, source, stagingExists, staging, processBatchSize,
                   lastObjectId, cursor, recordsInChunk, initialCount, failures,
                   consumed, validSeen, invalidSeen, snap, scanned, chunks, sweepVars,
                   shellVars>>

\* insert variant: some _id of the batch exists already; the others are inserted
\* and bulkWrite throws
CommitDupKeyError ==
    /\ variant = "insert" /\ pc = "commit"
    /\ HasDupKey(target, batch)
    /\ Caught(BulkWrite(target, batch, run), "dupkey")
    /\ UNCHANGED <<variant, etaVars, run, source, stagingExists, staging, processBatchSize,
                   lastObjectId, cursor, recordsInChunk, initialCount, failures,
                   consumed, validSeen, invalidSeen, snap, scanned, chunks, sweepVars,
                   shellVars>>

\* the target store is unavailable for a moment: bulkWrite throws, and any part
\* of the unordered batch may have been applied
CommitTransientFail ==
    /\ IsImport /\ pc = "commit"
    /\ failures < MaxFailures
    /\ failures' = failures + 1
    /\ \E applied \in SUBSET (1..Len(batch)) : Caught(ApplyOps(target, batch, applied, run), "transient")
    /\ UNCHANGED <<variant, etaVars, run, source, stagingExists, staging, processBatchSize,
                   lastObjectId, cursor, recordsInChunk, initialCount,
                   consumed, validSeen, invalidSeen, snap, scanned, chunks, sweepVars,
                   shellVars>>

\* the final batch: what the try and the catch share
FinalWrite(tgt, ok, why) ==
    /\ target' = tgt
    /\ stats' = IF ok THEN [stats EXCEPT !.processed = @ + Len(batch)] ELSE stats
    /\ writes' = Append(writes, [keys |-> batch, final |-> TRUE, ok |-> ok,
                                  cause |-> why, w |-> WriteConcern(variant, TRUE)])
    /\ pc' = "finalize"
    /\ UNCHANGED <<variant, etaVars, run, source, stagingExists, staging, processBatchSize,
                   batch, msisdnSet, lastObjectId, cursor, recordsInChunk, initialCount,
                   consumed, validSeen, invalidSeen, lastReport, pauses, resets, reported,
                   snap, scanned, chunks, sweepVars, shellVars>>

\* if (batch.length > 0) is false
DrainEmpty ==
    /\ IsImport /\ pc = "drain" /\ batch = <<>>
    /\ pc' = "finalize"
    /\ UNCHANGED <<variant, etaVars, importVars, historyVars, sweepVars, shellVars>>

FinalWriteOk ==
    /\ IsImport /\ pc = "drain" /\ batch # <<>>
    /\ variant = "insert" => ~HasDupKey(target, batch)
    /\ FinalWrite(BulkWrite(target, batch, run), TRUE, "none")
    /\ UNCHANGED failures

FinalWriteDupKeyError ==
    /\ variant = "insert" /\ pc = "drain" /\ batch # <<>>
    /\ HasDupKey(target, batch)
    /\ FinalWrite(BulkWrite(target, batch, run), FALSE, "dupkey")
    /\ UNCHANGED failures

FinalWriteTransientFail ==
    /\ IsImport /\ pc = "drain" /\ batch # <<>>
    /\ failures < MaxFailures
    /\ failures' = failures + 1
    /\ \E applied \in SUBSET (1..Len(batch)) :
          FinalWrite(ApplyOps(target, batch, applied, run), FALSE, "transient")

\* the summary, then finally { if (stats.processed > 0) db[tempCollection].drop(); }
Finalize ==
    /\ IsImport /\ pc = "finalize"
    /\ lastReport' = [kind |-> "summary", processed |-> stats.processed,
                      skipped |-> stats.skipped, duplicates |-> stats.duplicates,
                      consumed |-> consumed]
    /\ stagingExists' = IF stats.processed > 0 THEN FALSE ELSE stagingExists
    /\ staging' = IF stats.processed > 0 THEN {} ELSE staging
    /\ snap' = IF run = 1 THEN target ELSE snap
    /\ exitCode' = 0
    /\ pc' = "done"
    /\ UNCHANGED <<variant, etaVars, run, source, target, processBatchSize, stats, batch,
                   msisdnSet, lastObjectId, cursor, recordsInChunk, initialCount,
                   failures, consumed, validSeen, invalidSeen, writes, pauses, resets,
                   reported, scanned, chunks, sweepVars, reply>>

\* the script is run again over the same CSV file: mongoimport --drop loads the
\* temporary collection anew and the mongo shell starts with fresh variables
Rerun ==
    /\ IsImport /\ pc = "done" /\ run < MaxRuns
    /\ run' = run + 1
    /\ stagingExists' = TRUE
    /\ staging' = source
    /\ stats' = ZeroStats
    /\ batch' = <<>>
    /\ msisdnSet' = {}
    /\ lastObjectId' = 0
    /\ cursor' = <<>>
    /\ recordsInChunk' = 0
    /\ consumed' = 0
    /\ validSeen' = {}
    /\ invalidSeen' = 0
    /\ writes' = <<>>
    /\ lastReport' = NoReport
    /\ pauses' = 0
    /\ resets' = 0
    /\ reported' = {}
    /\ scanned' = <<>>
    /\ chunks' = 0
    /\ exitCode' = -1
    /\ reply' = "none"
    /\ pc' = "init"
    /\ UNCHANGED <<variant, etaVars, source, target, processBatchSize, initialCount, failures,
                   snap, sweepVars>>

-----------------------------------------------------------------------------
(* The upsert variant's trap: cleanup() on SIGINT or SIGTERM *)

\* what the operator may type at the prompt (read -n 1 -r takes one character)
Replies == {"y", "Y", "n"}

\* any reply has the temporary collection dropped
Confirms_Always(r) == TRUE

\* if [[ $REPLY =~ ^[Yy]$ ]]
Confirms(r) == r \in {"y", "Y"}

\* cleanup returns and the script goes on to its next command
AfterCleanup_Return == "open"

\* cleanup ends with exit 1
AfterCleanup == "aborted"

\* the states in which the script is running, the trap set
Running == {"init", "open", "scan", "commit", "drain", "finalize"}

\* the signal arrives while the script runs: the command under way (mongoimport,
\* mongosh) is ended where it is and bash calls cleanup, which prints its prompt
Interrupt ==
    /\ variant = "upsert" /\ pc \in Running
    /\ pc' = "interrupted"
    /\ UNCHANGED <<variant, etaVars, importVars, historyVars, sweepVars, shellVars>>

\* cleanup from read on: the reply, the drop if it is y or Y, then exit 1
Cleanup ==
    /\ variant = "upsert" /\ pc = "interrupted"
    /\ \E r \in Replies :
          /\ reply' = r
          /\ stagingExists' = IF Confirms(r) THEN FALSE ELSE stagingExists
          /\ staging' = IF Confirms(r) THEN {} ELSE staging
    /\ exitCode' = 1
    /\ pc' = AfterCleanup
    /\ UNCHANGED <<variant, etaVars, run, source, target, processBatchSize, stats, batch,
                   msisdnSet, lastObjectId, cursor, recordsInChunk, initialCount,
                   failures, historyVars, sweepVars>>

-----------------------------------------------------------------------------
(* Sweep-delete *)

\* documents of the collection with _id i: without the MSISDN field, or with it
\* (whatever its value)
CollDocs(i) == {[_id |-> i], [_id |-> i, MSISDN |-> K1], [_id |-> i, MSISDN |-> <<>>]}

SweepColls ==
    UNION {{{g[i] : i \in 1..n} :
            g \in {h \in [1..n -> UNION {CollDocs(i) : i \in 1..n}] :
                     \A i \in 1..n : h[i]._id = i}} : n \in 0..MaxColl}

\* the filter is {}: every document matches
Matches_Any(d) == TRUE

\* {MSISDN: {$exists: true}}
Matches(d) == "MSISDN" \in DOMAIN d
Matching(S) == {d \in S : Matches(d)}

\* the limit is off by one
SweepSelect_OverLimit(S, n) ==
    LET q == Limit(SortById(Matching(S)), n + 1) IN {q[i]._id : i \in 1..Len(q)}

\* find({[filterField]: {$exists: true}}).limit(batchSize).map(doc => doc._id)
SweepSelect(S, n) ==
    LET q == Limit(SortById(Matching(S)), n) IN {q[i]._id : i \in 1..Len(q)}

\* deleteMany deletes nothing
DeleteMany_None(S, ids) == S

\* deleteMany({_id: {$in: ids}})
DeleteMany(S, ids) == {d \in S : d._id \notin ids}

\* sweepA prints a line after every deleteMany; sweepB:
\* if (batchCount % logInterval === 0 || batchCount === 1
\*     || idsToDelete.length < batchSize)
LogDue(v, n, found, size) ==
    v = "sweepA" \/ n % LogInterval = 0 \/ n = 1 \/ found < size

SweepInit ==
    /\ variant \in {"sweepA", "sweepB"}
    /\ pc = IF variant = "sweepB" THEN "s_count" ELSE "s_loop"
    /\ coll \in SweepColls
    /\ coll0 = coll
    /\ batchSize \in 1..MaxSweepBatch
    /\ idsToDelete = {}
    /\ totalToDelete = 0
    /\ totalDeleted = 0
    /\ deletedCount = 0
    /\ batchCount = 0
    /\ logged = {}
    /\ exitCode = -1
    /\ reply = "none"
    /\ ImportIdle
    /\ EtaIdle

\* sweepB: count the matching documents; quit() when there are none
SweepCount ==
    /\ variant = "sweepB" /\ pc = "s_count"
    /\ totalToDelete' = Cardinality(Matching(coll))
    /\ pc' = IF totalToDelete' = 0 THEN "s_done" ELSE "s_loop"
    /\ UNCHANGED <<variant, etaVars, importVars, historyVars, shellVars, coll, coll0, batchSize,
                   idsToDelete, totalDeleted, deletedCount, batchCount, logged>>

\* one iteration of the loop that deletes: find, deleteMany, count, sleep
SweepPass ==
    /\ IsSweep /\ pc = "s_loop"
    /\ LET ids == SweepSelect(coll, batchSize)
           left == DeleteMany(coll, ids)
       IN /\ ids # {}
          /\ idsToDelete' = ids
          /\ coll' = left
          /\ deletedCount' = Cardinality(coll) - Cardinality(left)
          /\ totalDeleted' = totalDeleted + deletedCount'
          /\ batchCount' = batchCount + 1
          /\ logged' = IF LogDue(variant, batchCount', Cardinality(ids), batchSize)
                        THEN logged \cup {batchCount'} ELSE logged
    /\ pc' = "s_loop"
    /\ UNCHANGED <<variant, etaVars, importVars, historyVars, shellVars, coll0, batchSize,
                   totalToDelete>>

\* the iteration whose find returns nothing: break
SweepBreak ==
    /\ IsSweep /\ pc = "s_loop"
    /\ SweepSelect(coll, batchSize) = {}
    /\ idsToDelete' = {}
    /\ pc' = "s_done"
    /\ UNCHANGED <<variant, etaVars, importVars, historyVars, shellVars, coll, coll0, batchSize,
                   totalToDelete, totalDeleted, deletedCount, batchCount, logged>>

-----------------------------------------------------------------------------
(* The speed and the time remaining of a progress line *)

\* the upsert variant's line: stats.processed, totalRecords - stats.processed
\* and the seconds since stats.startTime; sweepB's line: result.deletedCount,
\* totalToDelete - totalDeleted and the seconds since lastBatchTime
EtaInputs ==
    [script : {"upsert"}, done : 1..MaxEtaCount, left : LeftValues,
     seconds : 0..MaxEtaSeconds]
    \cup [script : {"sweepB"}, done : 0..MaxEtaCount, left : LeftValues,
          seconds : 0..MaxEtaSeconds]

EtaInit ==
    /\ etaIn \in EtaInputs
    /\ variant = etaIn.script
    /\ pc = "eta"
    /\ etaOut = [speed |-> Num(0), eta |-> NoEta]
    /\ exitCode = -1
    /\ reply = "none"
    /\ ImportIdle
    /\ SweepIdle

\* upsert variant: speed, remaining and the line printed if (remaining > 0)
ImportEta ==
    /\ variant = "upsert" /\ pc = "eta"
    /\ LET speed == RoundDiv(etaIn.done, Num(etaIn.seconds))
           remaining == RoundDiv(etaIn.left, speed)
       IN etaOut' = [speed |-> speed,
                     eta |-> IF Gt(remaining, 0)
                             THEN [unit |-> "m s", a |-> FloorDiv(remaining, Minute),
                                   b |-> Mod(remaining, Minute)]
                             ELSE NoEta]
    /\ pc' = "eta_done"
    /\ UNCHANGED <<variant, importVars, historyVars, sweepVars, shellVars, etaIn>>

\* sweepB: recordsPerSecond, estimatedSecondsLeft and timeRemaining
SweepEta ==
    /\ variant = "sweepB" /\ pc = "eta"
    /\ LET recordsPerSecond == RoundDiv(etaIn.done, Num(etaIn.seconds))
           estimatedSecondsLeft == RoundDiv(etaIn.left, recordsPerSecond)
       IN etaOut' =
            [speed |-> recordsPerSecond,
             eta |-> IF Gt(estimatedSecondsLeft, Hour)
                     THEN [unit |-> "h m", a |-> FloorDiv(estimatedSecondsLeft, Hour),
                           b |-> FloorDiv(Mod(estimatedSecondsLeft, Hour), Minute)]
                     ELSE IF Gt(estimatedSecondsLeft, Minute)
                     THEN [unit |-> "m s", a |-> FloorDiv(estimatedSecondsLeft, Minute),
                           b |-> Mod(estimatedSecondsLeft, Minute)]
                     ELSE [unit |-> "s", a |-> estimatedSecondsLeft, b |-> Num(0)]]
    /\ pc' = "eta_done"
    /\ UNCHANGED <<variant, importVars, historyVars, sweepVars, shellVars, etaIn>>

EtaNext == ImportEta \/ SweepEta

-----------------------------------------------------------------------------
Init == ImportInit \/ SweepInit

\* one run of the import script
RunNext ==
    \/ Initialize \/ OpenChunk \/ ScanRecord \/ CloseChunk
    \/ CommitOk \/ CommitDupKeyError \/ CommitTransientFail
    \/ DrainEmpty \/ FinalWriteOk \/ FinalWriteDupKeyError \/ FinalWriteTransientFail
    \/ Finalize

\* the operator interrupts the script
InterruptNext == Interrupt \/ Cleanup

ImportNext == RunNext \/ Rerun

SweepNext == SweepCount \/ SweepPass \/ SweepBreak

Next == ImportNext \/ SweepNext

\* the scripts run to their end, no signal sent
Spec == Init /\ [][Next]_vars

\* each script is one sequential thread that runs until it ends
SweepFairSpec == SweepInit /\ [][SweepNext]_vars /\ WF_vars(SweepNext)
ImportFairSpec == ImportInit /\ [][RunNext]_vars /\ WF_vars(RunNext)

\* one run of the upsert variant, the script that sets the trap, which a signal
\* may interrupt at any point; the operator answers the prompt of cleanup
InterruptInit == ImportInit /\ variant = "upsert"

\* the steps of the upsert variant, whose bulkWrite has no duplicate key error
UpsertNext ==
    \/ Initialize \/ OpenChunk \/ ScanRecord \/ CloseChunk
    \/ CommitOk \/ CommitTransientFail
    \/ DrainEmpty \/ FinalWriteOk \/ FinalWriteTransientFail
    \/ Finalize

InterruptFairSpec ==
    /\ InterruptInit
    /\ [][UpsertNext \/ InterruptNext]_vars
    /\ WF_vars(Cleanup)

\* the arithmetic of one progress line, over the values its inputs may have
EtaSpec == EtaInit /\ [][EtaNext]_vars

\* one run of either variant over a longer file
LongScanFairSpec == LongScanInit /\ [][RunNext]_vars /\ WF_vars(RunNext)

-----------------------------------------------------------------------------
(* Properties *)

ImportDone == IsImport /\ pc = "done"

\* the writes of this run that threw
FailedWrites == {i \in 1..Len(writes) : ~writes[i].ok}

\* C1: idempotent replay.  When the second run over the same staging contents
\* has completed, the target collection holds the same documents, with the same
\* field values, as when the first run completed.
C1_IdempotentReplay == (ImportDone /\ run = 2) => target = snap

\* C1 holds when the environment failed no bulkWrite of either run
ReplayWithoutTransientFailure ==
    (ImportDone /\ run = 2 /\ failures = 0) => target = snap

\* C2: every mid-run bulkWrite that failed is followed in the run's sequence of
\* bulkWrite calls by a call that submits the same batch again, its contents
\* unchanged.
C2_FailedBatchResubmitted ==
    IsImport =>
        \A i \in 1..Len(writes) :
            (~writes[i].final /\ ~writes[i].ok) =>
                /\ i < Len(writes)
                /\ writes[i + 1].keys = writes[i].keys

\* C3: conservation.  At every progress line and at the summary,
\* processed + skipped + duplicate is the number of staging documents the run
\* has consumed, whatever the bulkWrite calls did.
C3_Conservation ==
    lastReport.kind # "none" =>
        lastReport.processed + lastReport.skipped + lastReport.duplicates
            = lastReport.consumed

\* C3 holds of the runs none of whose bulkWrite calls threw
ConservationWithoutFailure ==
    (lastReport.kind # "none" /\ FailedWrites = {}) =>
        lastReport.processed + lastReport.skipped + lastReport.duplicates
            = lastReport.consumed

\* the staging documents whose key is the valid key k
Repeats(k) == {d \in source : SpecValid(Msisdn(d)) /\ Msisdn(d).str = k}

\* C4: dedup correctness.  When a run has completed, every valid key that the
\* staging collection held k >= 1 times is the _id of exactly one document of
\* the target collection.
C4_DedupExactlyOne ==
    ImportDone =>
        \A k \in {K1, K2} :
            Repeats(k) # {} => Cardinality({id \in DOMAIN target : id = k}) = 1

\* C4 holds of the runs in which the environment failed no bulkWrite
DedupWithoutTransientFailure ==
    (\A i \in FailedWrites : writes[i].cause # "transient") => C4_DedupExactlyOne

\* C5: invalid filtering.  No key that is empty or the header label is in the
\* batch or in the target collection, and skipped counts exactly the consumed
\* documents whose key is missing, empty after trimming, or the header label.
C5_InvalidFiltered ==
    IsImport =>
        /\ \A i \in 1..Len(batch) : batch[i] # <<>> /\ batch[i] # HeaderLabel
        /\ <<>> \notin DOMAIN target
        /\ HeaderLabel \notin DOMAIN target
        /\ stats.skipped = invalidSeen

\* C5 holds of the upsert variant
InvalidFilteredUpsert == variant = "upsert" => C5_InvalidFiltered

\* the staging collection [f, "", f] in that order
Scenario(f) == {[_id |-> 1, MSISDN |-> f], [_id |-> 2, MSISDN |-> <<>>],
                [_id |-> 3, MSISDN |-> f]}

\* C6: the scenario.  With staging [K, "", K], an empty target collection,
\* processBatchSize = 2 and no write failure, the run ends with the one target
\* document K and processed = 1, skipped = 1, duplicate = 1.
C6_Scenario ==
    \A f \in RawFields :
        (/\ SpecValid(Msisdn([MSISDN |-> f]))
         /\ source = Scenario(f)
         /\ ImportDone /\ run = 1
         /\ initialCount = 0 /\ processBatchSize = 2
         /\ FailedWrites = {})
        => /\ DOMAIN target = {Trim(f)}
           /\ stats.processed = 1
           /\ stats.skipped = 1
           /\ stats.duplicates = 1

\* C6 holds of the insert variant
ScenarioInsert == variant = "insert" => C6_Scenario

\* C7: monotonic checkpoint.  Within a run lastObjectId never decreases,
\* whether the step reads a document, commits a batch or re-opens a chunk.
C7_MonotonicCheckpoint == [][run' = run => lastObjectId' >= lastObjectId]_vars

\* C7's case: two batches were committed and the scan goes on in a chunk that
\* was re-opened after the checkpoint.
C7_Witness ==
    /\ variant = "upsert" /\ pc = "scan"
    /\ stats.batchCount >= 2
    /\ lastObjectId = 3 /\ recordsInChunk = 1

\* ceil(a / b)
Ceil(a, b) == (a + b - 1) \div b

SweepTerminated ==
    /\ pc = "s_done"
    /\ batchCount = Ceil(Cardinality(Matching(coll0)), batchSize)
    /\ Matching(coll) = {}

\* C8: sweep-delete termination.  Every sweep ends, after exactly
\* ceil(matchCount / batchSize) passes that delete, with no matching document
\* left in the collection.
C8_SweepTerminates == IsSweep ~> SweepTerminated

\* C8's case: a sweep that ended after several passes, the last one partial.
C8_Witness ==
    /\ SweepTerminated
    /\ batchSize = 2
    /\ Cardinality(Matching(coll0)) = 3
    /\ batchCount = 2

\* C9: at-least-once delivery under retry.  When a run has completed in which
\* every bulkWrite that failed failed transiently, every valid key the run
\* consumed is the _id of a document of the target collection.
C9_AtLeastOnce ==
    (ImportDone /\ \A i \in FailedWrites : writes[i].cause = "transient")
        => validSeen \subseteq DOMAIN target

\* the last bulkWrite was a mid-run one that threw, and its catch block is done
MidRunFailureHandled ==
    /\ IsImport /\ pc = "scan"
    /\ writes # <<>>
    /\ ~writes[Len(writes)].ok /\ ~writes[Len(writes)].final

\* C10: a mid-run bulkWrite failure, an invalid document and a duplicate never
\* abort the run.  The step that handles a failed commit goes back to scanning
\* with the cursor where it was; the step that reads a document goes on with
\* the next one or to the commit; and after a handled failure the run reaches
\* the final batch (Draining) and the summary (Finalizing).
C10_FailureNeverAborts ==
    /\ [][/\ (IsImport /\ pc = "commit") => (pc' = "scan" /\ cursor' = cursor)
          /\ (IsImport /\ pc = "scan" /\ cursor # <<>>)
                => (pc' \in {"scan", "commit"} /\ cursor' = Tail(cursor))
          /\ (IsImport /\ pc' = "finalize") => pc = "drain"]_vars
    /\ MidRunFailureHandled ~> (pc = "finalize")

\* C10's case: a run that completed although a mid-run bulkWrite threw and an
\* invalid document was met.
C10_Witness ==
    /\ ImportDone
    /\ \E i \in FailedWrites : ~writes[i].final
    /\ stats.skipped > 0

\* the keys of a batch
Keys(b) == {b[i] : i \in 1..Len(b)}

\* C11: first-write-wins.  No step changes or removes a document that is in the
\* target collection: whatever is written under an _id that exists already, the
\* document keeps its business fields and both its timestamps.
C11_FirstWriteWins ==
    [][\A k \in DOMAIN target : k \in DOMAIN target' /\ target'[k] = target[k]]_vars

\* C11's case: a bulkWrite that carried the _id of a document the target held
\* before the run has been made (upsert: it returned; insert: it threw a
\* duplicate key error), and that document is as it was.
C11_Witness ==
    /\ IsImport /\ initialCount = 1
    /\ \E i \in 1..Len(writes) :
          /\ K1 \in Keys(writes[i].keys)
          /\ writes[i].ok \/ writes[i].cause = "dupkey"
    /\ K1 \in DOMAIN target /\ target[K1] = OldDoc

\* C12: partial success within a batch.  When a bulkWrite threw because the
\* write of one of its records failed (its _id was in the target collection
\* already), every record of that batch is in the target collection.
C12_PartialSuccess ==
    IsImport =>
        \A i \in 1..Len(writes) :
            writes[i].cause = "dupkey" => Keys(writes[i].keys) \subseteq DOMAIN target

\* C12's case: the first batch of the run held K1, which the target had
\* already, before K2, which it had not; the bulkWrite threw and K2 is there.
C12_Witness ==
    /\ variant = "insert" /\ run = 1 /\ initialCount = 1
    /\ Len(writes) = 1
    /\ writes[1].cause = "dupkey" /\ writes[1].keys = <<K1, K2>>
    /\ target[K1] = OldDoc
    /\ K2 \in DOMAIN target /\ target[K2] = NewDoc(1)

Cadence(lines, last, interval, ended) ==
    /\ last >= 1 => 1 \in lines
    /\ (ended /\ last >= 1) => last \in lines
    /\ ended => \A n \in lines : n = 1 \/ n = last \/ n % interval = 0

\* C14: progress reporting cadence.  In the import and in the sweep-delete, a
\* progress line is printed on the first committed batch, on the last committed
\* batch, and otherwise only on the batches whose ordinal is a multiple of the
\* progress interval.
C14_ProgressCadence ==
    /\ IsImport => Cadence(reported, stats.batchCount, ProgressInterval, pc = "done")
    /\ variant = "sweepB" => Cadence(logged, batchCount, LogInterval, pc = "s_done")

\* what the import prints: a line on the multiples of the interval, no other
ImportCadence ==
    IsImport => reported = {n \in 1..stats.batchCount : n % ProgressInterval = 0}

\* what sweepB prints: a line on the first pass, on the multiples of the
\* interval, and on a last pass that found fewer than batchSize documents
SweepBCadence ==
    variant = "sweepB" =>
        /\ batchCount >= 1 => 1 \in logged
        /\ \A n \in 1..batchCount :
              n % LogInterval = 0 => n \in logged
        /\ \A n \in logged : n = 1 \/ n % LogInterval = 0 \/ n = batchCount

\* a step of the import as C15 has it: the step that leaves Draining goes to
\* Finalizing, and submits the buffered batch in one bulkWrite with w: 1 if the
\* buffer is not empty and makes no bulkWrite if it is; only that step goes to
\* Finalizing; and every mid-run bulkWrite is made with w: 0
DrainStep ==
    /\ pc = "drain" =>
          /\ pc' = "finalize"
          /\ batch = <<>> => writes' = writes
          /\ batch # <<>> =>
                /\ Len(writes') = Len(writes) + 1
                /\ SubSeq(writes', 1, Len(writes)) = writes
                /\ writes'[Len(writes')].keys = batch
                /\ writes'[Len(writes')].final
                /\ writes'[Len(writes')].w = "w1"
    /\ pc' = "finalize" => pc = "drain"
    /\ \A i \in 1..Len(writes') :
          /\ writes'[i].final => i = Len(writes')
          /\ ~writes'[i].final => writes'[i].w = "w0"

\* C15: draining.  When the cursor is exhausted and the batch is not empty, the
\* batch is submitted exactly once before Finalizing, with writeConcern w: 1,
\* whereas every mid-run batch is submitted with w: 0; when the batch is empty
\* no final bulkWrite is made.
C15_Draining == [][IsImport => DrainStep]_vars

\* C15 holds of the upsert variant
DrainingUpsert == [][variant = "upsert" => DrainStep]_vars

\* C16: Finalizing drops the staging area.  When a run has completed, whatever
\* its records came to, a run that processed no record included, the temporary
\* collection no longer exists.
C16_StagingDropped == ImportDone => (~stagingExists /\ staging = {})

\* C16 holds of the runs that counted at least one record as processed
StagingDroppedWhenProcessed ==
    (ImportDone /\ stats.processed > 0) => (~stagingExists /\ staging = {})

\* the Run Controller is in Interrupted: cleanup runs, or has ended the script
Interrupted == pc \in {"interrupted", "aborted"}

\* C17: interrupt.  Once the signal is observed the run is in Interrupted and
\* stays there: no bulkWrite is made and the target collection is not written,
\* no document is read and no chunk is opened (Scanning is not re-entered), and
\* the script exits.
C17_Interrupt ==
    /\ [][Interrupted =>
            /\ Interrupted'
            /\ writes' = writes /\ target' = target
            /\ cursor' = cursor /\ consumed' = consumed /\ batch' = batch
            /\ stats' = stats]_vars
    /\ Interrupted ~> (pc = "aborted" /\ exitCode # -1)

\* C17's case: the run was interrupted after a bulkWrite, with documents of the
\* open chunk still unread, and the script has exited.
C17_Witness ==
    /\ pc = "aborted" /\ exitCode # -1
    /\ writes # <<>> /\ cursor # <<>>

\* C18: interrupt exit.  The step that ends an interrupted run exits with a
\* non-zero status; it drops the temporary collection if the reply at the
\* prompt is y or Y, and leaves the temporary collection as it is otherwise.
C18_InterruptExit ==
    [][pc = "interrupted" =>
          /\ exitCode' > 0
          /\ reply' \in {"y", "Y"} => (~stagingExists' /\ staging' = {})
          /\ reply' \notin {"y", "Y"} =>
                (stagingExists' = stagingExists /\ staging' = staging)]_vars

\* C18's case: a run interrupted after it had read documents, the operator
\* declined and the temporary collection is as mongoimport made it.
C18_Witness ==
    /\ pc = "aborted" /\ exitCode = 1
    /\ consumed > 0
    /\ reply = "n" /\ stagingExists /\ staging = source /\ source # {}

\* the temporary collection was not there when the first run began (the run
\* drops it only after it has processed a record)
StagingMissing == run = 1 /\ ~stagingExists /\ stats.processed = 0

\* C19: staging unavailable is fatal.  If the temporary collection does not
\* exist when the script is about to scan, the run stops there: no document is
\* read, no bulkWrite is made, and the script exits with a non-zero status.
C19_StagingUnavailableFatal ==
    (IsImport /\ StagingMissing /\ pc # "init") =>
        /\ pc = "failed" /\ exitCode > 0
        /\ consumed = 0 /\ writes = <<>>

\* C19 holds of the upsert variant
StagingUnavailableFatalUpsert == variant = "upsert" => C19_StagingUnavailableFatal

\* the step committed a batch: its bulkWrite returned
CommitStep == Len(writes') = Len(writes) + 1 /\ writes'[Len(writes')].ok

\* no counter of stats is smaller after the step
StatsNotDecreased ==
    /\ stats'.processed >= stats.processed
    /\ stats'.skipped >= stats.skipped
    /\ stats'.duplicates >= stats.duplicates
    /\ stats'.batchCount >= stats.batchCount

\* C20: RunStats discipline.  In every step of a run no counter of stats
\* decreases, and a step that changes a counter is one that committed a batch.
C20_StatsDiscipline ==
    [][(IsImport /\ run' = run) =>
          /\ StatsNotDecreased
          /\ stats' # stats => CommitStep]_vars

\* the part of C20 that holds: no counter decreases, and processed and
\* batchCount change only in a step that committed a batch
StatsMonotone ==
    [][(IsImport /\ run' = run) =>
          /\ StatsNotDecreased
          /\ (stats'.processed # stats.processed
                \/ stats'.batchCount # stats.batchCount) => CommitStep]_vars

\* the _ids of a sequence of _ids
Range(q) == {q[i] : i \in 1..Len(q)}

\* the scan of this run is over
ScanOver == pc \in {"drain", "finalize", "done"}

\* C23: chunked scan coverage.  The chunked scan of the upsert variant hands the
\* staging documents to the loop body in strictly increasing _id order, so none
\* twice, and when the scan is over every staging document has been handed over.
C23_ChunkedScanCoverage ==
    variant = "upsert" =>
       /\ \A i \in 1..(Len(scanned) - 1) : scanned[i] < scanned[i + 1]
       /\ Range(scanned) \subseteq {d._id : d \in source}
       /\ ScanOver => Range(scanned) = {d._id : d \in source}

\* a scan of three or more chunks is over
C23_Witness ==
    /\ variant = "upsert" /\ ScanOver /\ chunks >= 3
    /\ Len(scanned) >= 2 * ChunkSize(processBatchSize)

\* the sub-scans the claim allows for the staging collection of this run
MostChunks == Cardinality(source) \div (processBatchSize * ChunkMultiplier) + 1

\* C24: chunked scan termination.  The chunk loop of the upsert variant, once
\* entered, ends, and it opens at most floor(N / chunkSize) + 1 cursors over a
\* staging collection of N documents.
C24_ChunkedScanTerminates ==
    /\ [](variant = "upsert" => chunks <= MostChunks)
    /\ (variant = "upsert" /\ pc = "open") ~> ScanOver

\* the scan of a staging collection of one or more full chunks, and nothing
\* more, is over: its last cursor returned no document
C24_Witness ==
    /\ variant = "upsert" /\ ScanOver /\ source # {}
    /\ Cardinality(source) % (processBatchSize * ChunkMultiplier) = 0
    /\ chunks = MostChunks

\* the step is at a chunk boundary: the cursor is closed or the next one opened
ChunkBoundary == pc = "open" \/ (pc = "scan" /\ cursor = <<>>)

HasMarker(d) == "MSISDN" \in DOMAIN d

\* C26: sweep-delete frame and accounting.  A step of a sweep removes only
\* documents that have the marker field, at most batchSize of them, and changes
\* no other document; the documents without the field that were there at the
\* start are there throughout; and when the sweep ends, no other writer at work,
\* totalDeleted is the number of documents that had the field at the start.
C26_SweepFrame ==
    /\ [][IsSweep => /\ coll' \subseteq coll
                     /\ \A d \in coll \ coll' : HasMarker(d)
                     /\ Cardinality(coll \ coll') <= batchSize]_vars
    /\ [](IsSweep => {d \in coll0 : ~HasMarker(d)} \subseteq coll)
    /\ []((IsSweep /\ pc = "s_done") =>
             totalDeleted = Cardinality({d \in coll0 : HasMarker(d)}))

\* a sweep of two or more passes has ended over a collection that held
\* documents with the field and documents without it
C26_Witness ==
    /\ IsSweep /\ pc = "s_done" /\ batchCount >= 2 /\ totalDeleted >= 2
    /\ \E d \in coll0 : ~HasMarker(d)

\* the step is an iteration of the loop that deletes, and it removes nothing
ZeroPass == pc = "s_loop" /\ coll' = coll /\ totalDeleted' = totalDeleted

Artifact(eta) == eta.unit # "none" /\ (eta.a.k # "num" \/ eta.b.k # "num")

\* a progress line has been worked out
EtaDone == pc = "eta_done"

\* C21: zero-speed ETA.  When the speed of a progress line rounds to zero, no
\* value that comes of dividing by zero is printed as the time remaining.
C21_ZeroSpeedEta == (EtaDone /\ etaOut.speed = Num(0)) => ~Artifact(etaOut.eta)

\* whenever the speed is a positive number the time remaining, if printed, is
\* made of numbers
EtaOfPositiveSpeed == (EtaDone /\ Gt(etaOut.speed, 0)) => ~Artifact(etaOut.eta)

=============================================================================
